---- MODULE Spec2Model ----
(***************************************************************************)
(* The CSV cleaning pipeline (src/src/data_processing.py, DataProcessor)   *)
(* and its orchestrator (src/src/pipeline_orchestrator.py, run_pipeline).  *)
(*                                                                         *)
(* Values.  A text is a sequence of one-character strings; a cell is a     *)
(* record [t, v] with t one of "str", "num", "nan" and v a text; a row is  *)
(* a sequence of cells; a path is a sequence of components and a component *)
(* is a sequence of string tokens, so that os.path.dirname, os.path.join   *)
(* and strftime are computed and not assumed.                              *)
(***************************************************************************)
EXTENDS Integers, Sequences, FiniteSets, TLC

VARIABLES
    now,          \* the wall clock, in seconds (datetime.now())
    dirs,         \* the directories of the file system
    files,        \* the regular files of the file system: path -> content
    pc,           \* where control stands: "idle" (no call in progress), "direct"
                  \* (a caller holds a DataProcessor and calls its methods itself,
                  \* as the unit tests do) or the step of the call in progress
    config,       \* run_pipeline's local: the parsed configuration
    input_path,   \* DataProcessor.input_path
    output_path,  \* DataProcessor.output_path
    df,           \* DataProcessor.df
    start_time,   \* process's local start_time
    result,       \* what the last call on the DataProcessor gave its caller
    logger,       \* the lines logged since the current call began
    returned,     \* the last finished run_pipeline invocation, as its caller saw it
    runs          \* the number of run_pipeline invocations begun

vars == <<now, dirs, files, pc, config, input_path, output_path, df,
          start_time, result, logger, returned, runs>>

\* ------------------------------------------------------------------ bounds
MaxRows == 2
MaxRuns == 2
MaxClock == 1

\* ------------------------------------------------------------ basic values
None == [kind |-> "None"]

NaN == [t |-> "nan", v |-> <<>>]

Str(s) == [t |-> "str", v |-> s]

Num(s) == [t |-> "num", v |-> s]

Range(s) == {s[i] : i \in DOMAIN s}

\* ------------------------------------------------------------------- paths
Comp(s) == <<s>>

dirname(p) == IF Len(p) = 0 THEN <<>> ELSE SubSeq(p, 1, Len(p) - 1)

path_join(d, name) == Append(d, name)

Prefixes(p) == {SubSeq(p, 1, k) : k \in 1..Len(p)}

\* str(e) of an exception: its text and the path it names (<<>> when none)
Err(msg, p) == [msg |-> msg, path |-> p]

Raised(e) == [raised |-> TRUE, exc |-> e]

\* os.makedirs(p, exist_ok=True) on the file system (ds, fs)
os_makedirs(ds, fs, p) ==
    IF p = <<>>
    THEN Raised(Err("[Errno 2] No such file or directory", p))
    ELSE IF p \in DOMAIN fs
    THEN Raised(Err("[Errno 17] File exists", p))
    ELSE IF \E q \in Prefixes(p) : q \in DOMAIN fs
    THEN Raised(Err("[Errno 20] Not a directory", p))
    ELSE [raised |-> FALSE, dirs |-> ds \cup Prefixes(p)]

\* open(p, 'w') followed by a complete write of content
write_file(ds, fs, p, content) ==
    IF p \in ds
    THEN Raised(Err("[Errno 21] Is a directory", p))
    ELSE IF dirname(p) # <<>> /\ dirname(p) \notin ds
    THEN Raised(Err("[Errno 2] No such file or directory", p))
    ELSE [raised |-> FALSE,
          files |-> [q \in DOMAIN fs \cup {p} |-> IF q = p THEN content ELSE fs[q]]]

\* ------------------------------------------------------------------- clock
isoformat(t) == <<ToString(t)>>

strftime(t) == ToString(t)

\* ------------------------------------------------------------------ pandas
Whitespace == {" "}

RECURSIVE lstrip(_)
lstrip(s) == IF s # <<>> /\ Head(s) \in Whitespace THEN lstrip(Tail(s)) ELSE s

RECURSIVE rstrip(_)
rstrip(s) ==
    IF s # <<>> /\ s[Len(s)] \in Whitespace
    THEN rstrip(SubSeq(s, 1, Len(s) - 1))
    ELSE s

\* a strip that forgets the trailing whitespace
strip_leading_only(s) == lstrip(s)

\* str.strip() of one text
strip(s) == rstrip(lstrip(s))

\* Series.str.strip() on one cell of an object column: a non-string gives NaN
str_strip(cell) == IF cell.t = "str" THEN Str(strip(cell.v)) ELSE NaN

lower_char(c) ==
    CASE c = "I" -> "i"
      [] c = "D" -> "d"
      [] c = "N" -> "n"
      [] OTHER -> c

\* str.lower() of one column name
str_lower(name) == [i \in DOMAIN name |-> lower_char(name[i])]

\* the dtype pandas infers for column c of the parsed rows
infer_dtype(rows, c) ==
    IF rows = <<>> \/ \E i \in DOMAIN rows : rows[i][c].t = "str"
    THEN "object"
    ELSE "number"

DataFrame(columns, dtypes, rows) ==
    [kind |-> "DataFrame", columns |-> columns, dtypes |-> dtypes, rows |-> rows]

\* a reader that answers a missing file with an empty table
pd_read_csv_missing_as_empty(fs, p) ==
    IF p \notin DOMAIN fs
    THEN [raised |-> FALSE, df |-> DataFrame(<<>>, <<>>, <<>>)]
    ELSE IF fs[p].kind # "csv"
    THEN Raised(Err("Error tokenizing data", <<>>))
    ELSE [raised |-> FALSE,
          df |-> DataFrame(fs[p].header,
                           [c \in DOMAIN fs[p].header |-> infer_dtype(fs[p].rows, c)],
                           fs[p].rows)]

\* pd.read_csv(p)
pd_read_csv(fs, p) ==
    IF p \notin DOMAIN fs
    THEN Raised(Err("[Errno 2] No such file or directory", p))
    ELSE IF fs[p].kind # "csv"
    THEN Raised(Err("Error tokenizing data", <<>>))
    ELSE [raised |-> FALSE,
          df |-> DataFrame(fs[p].header,
                           [c \in DOMAIN fs[p].header |-> infer_dtype(fs[p].rows, c)],
                           fs[p].rows)]

RECURSIVE keep_first(_, _)
keep_first(rows, kept) ==
    IF rows = <<>> THEN kept
    ELSE IF Head(rows) \in Range(kept)
    THEN keep_first(Tail(rows), kept)
    ELSE keep_first(Tail(rows), Append(kept, Head(rows)))

\* a pipeline that forgets to deduplicate
drop_duplicates_skipped(rows) == rows

\* DataFrame.drop_duplicates(): keep the first occurrence of every row
drop_duplicates(rows) == keep_first(rows, <<>>)

has_null(row) == \E c \in DOMAIN row : row[c].t = "nan"

\* DataFrame.dropna(): drop every row holding a null
dropna(rows) == SelectSeq(rows, LAMBDA r : ~has_null(r))

\* df[name] = value, a scalar text broadcast to every row
set_column(d, name, value) ==
    IF name \in Range(d.columns)
    THEN DataFrame(d.columns,
                   [c \in DOMAIN d.columns |->
                       IF d.columns[c] = name THEN "object" ELSE d.dtypes[c]],
                   [i \in DOMAIN d.rows |->
                       [c \in DOMAIN d.columns |->
                           IF d.columns[c] = name THEN Str(value) ELSE d.rows[i][c]]])
    ELSE DataFrame(Append(d.columns, name),
                   Append(d.dtypes, "object"),
                   [i \in DOMAIN d.rows |-> Append(d.rows[i], Str(value))])

\* df.columns = df.columns.str.lower()
lower_columns(d) ==
    DataFrame([c \in DOMAIN d.columns |-> str_lower(d.columns[c])], d.dtypes, d.rows)

\* df.select_dtypes(include=['object']).columns, as positions
object_columns(d) == {c \in DOMAIN d.columns : d.dtypes[c] = "object"}

\* df[col] is a Series only when one column bears the name
is_series(d, c) == \A c2 \in DOMAIN d.columns : d.columns[c2] = d.columns[c] => c2 = c

\* for col in object columns: df[col] = df[col].str.strip(). The loop goes
\* through the object columns in order and raises at the first whose name
\* selects a DataFrame; the columns before it are already trimmed.
strip_object_columns(d) ==
    LET bad == {c \in object_columns(d) : ~is_series(d, c)}
        done == {c \in object_columns(d) : \A b \in bad : c < b}
    IN  [raised |-> bad # {},
         exc |-> Err("'DataFrame' object has no attribute 'str'", <<>>),
         df |-> DataFrame(d.columns, d.dtypes,
                          [i \in DOMAIN d.rows |->
                              [c \in DOMAIN d.columns |->
                                  IF c \in done
                                  THEN str_strip(d.rows[i][c])
                                  ELSE d.rows[i][c]]])]

TimestampColumn == <<"processed_timestamp">>

\* a validation that forgets the null check
is_valid_empty_only(d) == Len(d.rows) # 0

\* the checks of validate_data on a loaded table
is_valid(d) ==
    IF Len(d.rows) = 0 THEN FALSE
    ELSE IF \E i \in DOMAIN d.rows : has_null(d.rows[i]) THEN FALSE
    ELSE TRUE

\* DataFrame.to_csv(index=False): header and rows, no dtypes, no index
to_csv(d) == [kind |-> "csv", header |-> d.columns, rows |-> d.rows]

\* ------------------------------------------------- the files of a deployment
InputPath == <<Comp("data"), Comp("input.csv")>>

MissingInput == <<Comp("data"), Comp("missing.csv")>>

OutNested == <<Comp("out"), Comp("clean"), Comp("output.csv")>>

OutBare == <<Comp("output.csv")>>

Blocked == <<Comp("blocked")>>

OutBlocked == <<Comp("blocked"), Comp("output.csv")>>

DefaultLogPath == <<Comp("logs")>>

DefaultPipelineName == <<Comp("default")>>

Cfg(name) == <<Comp("config"), Comp(name)>>

Garbage == [kind |-> "garbage"]

Json(obj) == [kind |-> "json", obj |-> obj]

KV(k, v) == [x \in {k} |-> v]

ConfigFiles ==
    Cfg("pipeline_config.json") :>
        Json(KV("input_path", InputPath) @@ KV("output_path", OutNested))
    @@ Cfg("missing_input.json") :>
        Json(KV("input_path", MissingInput) @@ KV("output_path", OutNested))
    @@ Cfg("bare_output.json") :>
        Json(KV("input_path", InputPath) @@ KV("output_path", OutBare))
    @@ Cfg("blocked_output.json") :>
        Json(KV("input_path", InputPath) @@ KV("output_path", OutBlocked))
    @@ Cfg("blocked_log.json") :>
        Json(KV("input_path", InputPath) @@ KV("output_path", OutNested)
             @@ KV("pipeline_name", <<Comp("nightly")>>) @@ KV("log_path", Blocked))
    @@ Cfg("no_input.json") :> Json(KV("output_path", OutNested))
    @@ Cfg("no_output.json") :> Json(KV("input_path", InputPath))
    @@ Cfg("broken.json") :> Garbage

ConfigPaths == DOMAIN ConfigFiles \cup {Cfg("absent.json")}

\* the tables an input file may hold: a numeric column and a text column,
\* under a header of mixed case, a header whose names collide once lowercased,
\* or the header of a file that already bears a processed_timestamp column
Headers == { << <<"I", "D">>, <<"N", "a", "m", "e">> >>,
             << <<"N", "a", "m", "e">>, <<"n", "a", "m", "e">> >>,
             << <<"I", "D">>, TimestampColumn >> }

TextCells == {Str(<<"a">>), Str(<<" ", "a", " ">>), NaN}

Rows == {<<Num(<<"1">>), t>> : t \in TextCells} \cup {<<NaN, Str(<<"a">>)>>}

RECURSIVE SeqsUpTo(_, _)
SeqsUpTo(S, n) ==
    IF n = 0 THEN {<<>>}
    ELSE LET shorter == SeqsUpTo(S, n - 1)
         IN  shorter \cup {Append(q, x) : q \in {r \in shorter : Len(r) = n - 1}, x \in S}

InputContents ==
    {[kind |-> "csv", header |-> h, rows |-> rs] : h \in Headers, rs \in SeqsUpTo(Rows, MaxRows)}
    \cup {Garbage}

\* dict.get(key, default)
dict_get(d, key, default) == IF key \in DOMAIN d THEN d[key] ELSE default

\* ------------------------------------------------------------- the results
Failed(e, t) == [status |-> "failed", error |-> e, timestamp |-> isoformat(t)]

Success(d, start, t, out) ==
    [status |-> "success",
     rows_processed |-> Len(d.rows),
     duration_seconds |-> t - start,
     output_path |-> out,
     timestamp |-> isoformat(t)]

\* the failed result of run_pipeline's own handlers, which bears no timestamp
OrchestratorFailed(e) == [status |-> "failed", error |-> e]

\* the name of the execution log written at time t under log_dir
log_file_name(log_dir, t) == path_join(log_dir, <<"execution_", strftime(t), ".json">>)

execution_log(cfg, t, res) ==
    [kind |-> "log",
     pipeline_name |-> dict_get(cfg, "pipeline_name", DefaultPipelineName),
     execution_time |-> isoformat(t),
     result |-> res]

\* -------------------------------------------------------------------- Init
InputPaths == {InputPath, MissingInput}

OutputPaths == {OutNested, OutBare, OutBlocked}

\* Either the orchestrator is idle, or a caller has constructed a
\* DataProcessor(input_path, output_path) and holds it.
Init ==
    /\ now = 0
    /\ dirs = {<<Comp("data")>>, <<Comp("config")>>}
    /\ \E content \in InputContents :
          files = ConfigFiles @@ (Blocked :> Garbage) @@ (InputPath :> content)
    /\ \/ /\ pc = "idle"
          /\ input_path = None
          /\ output_path = None
       \/ /\ pc = "direct"
          /\ input_path \in InputPaths
          /\ output_path \in OutputPaths
    /\ config = None
    /\ df = None
    /\ start_time = None
    /\ result = None
    /\ logger = <<>>
    /\ returned = None
    /\ runs = 0

\* what a method called directly gives its caller
Returned(v) == [status |-> "returned", value |-> v]

Propagated(e) == [status |-> "raised", error |-> e]

\* the line run_pipeline's handlers log: the first handler takes every
\* FileNotFoundError, the second every other exception
except_line(e) ==
    IF e.msg = "[Errno 2] No such file or directory"
    THEN "Configuration file not found"
    ELSE "Pipeline execution failed"

\* run_pipeline returns ret; its locals and the processor go out of scope
Return(cp, inner, ret, lines) ==
    /\ returned' = [config_path |-> cp, inner |-> inner, ret |-> ret]
    /\ logger' = lines
    /\ pc' = "idle"
    /\ config' = None
    /\ input_path' = None
    /\ output_path' = None
    /\ df' = None
    /\ start_time' = None
    /\ result' = None

\* where process returns to: run_pipeline when it made the call
AfterProcess == IF config = None THEN "direct" ELSE "log_execution"

\* an except clause that logs and raises again
process_except_reraise(e, lines) ==
    /\ result' = Propagated(e)
    /\ logger' = logger \o lines \o <<"Pipeline failed">>
    /\ pc' = AfterProcess

\* the except clause of process: any stage's exception becomes a failed result
process_except(e, lines) ==
    /\ result' = Failed(e, now)
    /\ logger' = logger \o lines \o <<"Pipeline failed">>
    /\ pc' = AfterProcess

\* an exception leaves a method: into process's except clause, or to the caller
Raise(e, lines) ==
    IF pc = "direct"
    THEN /\ result' = Propagated(e)
         /\ logger' = lines
         /\ pc' = "direct"
    ELSE process_except(e, lines)

\* a method returns v: process goes on with its next step, a caller gets v
Continue(next, v, lines) ==
    IF pc = "direct"
    THEN /\ result' = Returned(v)
         /\ logger' = lines
         /\ pc' = "direct"
    ELSE /\ result' = result
         /\ logger' = logger \o lines
         /\ pc' = next

\* a loader that reads output_path with a default, config.get('output_path', ...)
load_config_default_output(fs, cp) ==
    IF cp \notin DOMAIN fs
    THEN Raised(Err("[Errno 2] No such file or directory", cp))
    ELSE IF fs[cp].kind # "json"
    THEN Raised(Err("Expecting value", <<>>))
    ELSE IF "input_path" \notin DOMAIN fs[cp].obj
    THEN Raised(Err("'input_path'", <<>>))
    ELSE [raised |-> FALSE, obj |-> fs[cp].obj,
          input_path |-> fs[cp].obj["input_path"],
          output_path |-> dict_get(fs[cp].obj, "output_path", OutNested)]

\* the configuration as run_pipeline reads it from cp
load_config(fs, cp) ==
    IF cp \notin DOMAIN fs
    THEN Raised(Err("[Errno 2] No such file or directory", cp))
    ELSE IF fs[cp].kind # "json"
    THEN Raised(Err("Expecting value", <<>>))
    ELSE IF "input_path" \notin DOMAIN fs[cp].obj
    THEN Raised(Err("'input_path'", <<>>))
    ELSE IF "output_path" \notin DOMAIN fs[cp].obj
    THEN Raised(Err("'output_path'", <<>>))
    ELSE [raised |-> FALSE, obj |-> fs[cp].obj,
          input_path |-> fs[cp].obj["input_path"],
          output_path |-> fs[cp].obj["output_path"]]

\* run_pipeline(cp) up to its call of process
run_pipeline(cp) ==
    /\ pc = "idle"
    /\ runs < MaxRuns
    /\ runs' = runs + 1
    /\ UNCHANGED <<now, dirs, files>>
    /\ LET c == load_config(files, cp)
       IN  IF c.raised
           THEN Return(cp, None, OrchestratorFailed(c.exc),
                       IF cp \in DOMAIN files /\ files[cp].kind = "json"
                       THEN <<"Pipeline started", except_line(c.exc)>>
                       ELSE <<except_line(c.exc)>>)
           ELSE /\ config' = [path |-> cp, obj |-> c.obj]
                /\ input_path' = c.input_path
                /\ output_path' = c.output_path
                /\ df' = None
                /\ logger' = <<"Pipeline started">>
                /\ pc' = "process"
                /\ UNCHANGED <<start_time, result, returned>>

\* process, entered: by run_pipeline or by a caller holding the processor
process ==
    /\ pc \in {"process", "direct"}
    /\ start_time' = now
    /\ logger' = IF pc = "direct"
                 THEN <<"Starting data pipeline">>
                 ELSE Append(logger, "Starting data pipeline")
    /\ pc' = "read_csv"
    /\ UNCHANGED <<now, dirs, files, config, input_path, output_path, df, result,
                   returned, runs>>

read_csv ==
    /\ pc \in {"read_csv", "direct"}
    /\ LET r == pd_read_csv(files, input_path)
       IN  IF r.raised
           THEN /\ Raise(r.exc, <<"Reading CSV",
                                   IF input_path \in DOMAIN files
                                   THEN "Error reading CSV"
                                   ELSE "Input file not found">>)
                /\ UNCHANGED df
           ELSE /\ df' = r.df
                /\ Continue("clean_data", "df", <<"Reading CSV", "Successfully read">>)
    /\ UNCHANGED <<now, dirs, files, config, input_path, output_path, start_time,
                   returned, runs>>

clean_data ==
    /\ pc \in {"clean_data", "direct"}
    /\ IF df = None
       THEN /\ Raise(Err("No data loaded. Call read_csv() first.", <<>>), <<>>)
            /\ UNCHANGED df
       ELSE /\ df' = DataFrame(df.columns, df.dtypes, dropna(drop_duplicates(df.rows)))
            /\ Continue("transform_data", "df",
                        <<"Cleaning data", "Removed duplicates",
                          "Removed rows with missing values">>)
    /\ UNCHANGED <<now, dirs, files, config, input_path, output_path, start_time,
                   returned, runs>>

transform_data ==
    /\ pc \in {"transform_data", "direct"}
    /\ IF df = None
       THEN /\ Raise(Err("No data loaded. Call read_csv() first.", <<>>), <<>>)
            /\ UNCHANGED df
       ELSE LET stamped == set_column(df, TimestampColumn, isoformat(now))
                lowered == lower_columns(stamped)
                r == strip_object_columns(lowered)
            IN  IF r.raised
                THEN /\ Raise(r.exc, <<"Transforming data">>)
                     /\ df' = r.df
                ELSE /\ df' = r.df
                     /\ Continue("validate_data", "df",
                                 <<"Transforming data", "Data transformation complete">>)
    /\ UNCHANGED <<now, dirs, files, config, input_path, output_path, start_time,
                   returned, runs>>

\* a process that calls validate_data and ignores what it returns
validate_data_unchecked ==
    /\ pc \in {"validate_data", "direct"}
    /\ IF df = None
       THEN Raise(Err("No data loaded.", <<>>), <<>>)
       ELSE IF is_valid(df)
       THEN Continue("write_csv", "True", <<"Validating data", "Data validation passed">>)
       ELSE Continue("write_csv", "False",
                     <<"Validating data",
                       IF Len(df.rows) = 0
                       THEN "Dataframe is empty after processing"
                       ELSE "NULL values found in dataframe">>)
    /\ UNCHANGED <<now, dirs, files, config, input_path, output_path, df, start_time,
                   returned, runs>>

validate_data ==
    /\ pc \in {"validate_data", "direct"}
    /\ IF df = None
       THEN Raise(Err("No data loaded.", <<>>), <<>>)
       ELSE IF is_valid(df)
       THEN Continue("write_csv", "True", <<"Validating data", "Data validation passed">>)
       ELSE LET lines == <<"Validating data",
                           IF Len(df.rows) = 0
                           THEN "Dataframe is empty after processing"
                           ELSE "NULL values found in dataframe">>
            IN  IF pc = "direct"
                THEN Continue("direct", "False", lines)
                ELSE process_except(Err("Data validation failed", <<>>), lines)
    /\ UNCHANGED <<now, dirs, files, config, input_path, output_path, df, start_time,
                   returned, runs>>

write_csv ==
    /\ pc \in {"write_csv", "direct"}
    /\ IF df = None
       THEN /\ Raise(Err("No data to write.", <<>>), <<>>)
            /\ UNCHANGED <<dirs, files>>
       ELSE LET m == os_makedirs(dirs, files, dirname(output_path))
            IN  IF m.raised
                THEN /\ Raise(m.exc, <<"Error writing CSV">>)
                     /\ UNCHANGED <<dirs, files>>
                ELSE LET w == write_file(m.dirs, files, output_path, to_csv(df))
                     IN  /\ dirs' = m.dirs
                         /\ IF w.raised
                            THEN /\ Raise(w.exc, <<"Writing CSV", "Error writing CSV">>)
                                 /\ UNCHANGED files
                            ELSE /\ files' = w.files
                                 /\ Continue("process_return", "None",
                                             <<"Writing CSV", "CSV write successful">>)
    /\ UNCHANGED <<now, config, input_path, output_path, df, start_time, returned, runs>>

\* the success return of process
process_return ==
    /\ pc = "process_return"
    /\ result' = Success(df, start_time, now, output_path)
    /\ logger' = Append(logger, "Pipeline completed successfully")
    /\ pc' = AfterProcess
    /\ UNCHANGED <<now, dirs, files, config, input_path, output_path, df, start_time,
                   returned, runs>>

\* run_pipeline after process has returned: the execution log and the return
log_execution ==
    /\ pc = "log_execution"
    /\ LET log_dir == dict_get(config.obj, "log_path", DefaultLogPath)
           m == os_makedirs(dirs, files, log_dir)
       IN  IF m.raised
           THEN /\ Return(config.path, result, OrchestratorFailed(m.exc),
                          Append(logger, except_line(m.exc)))
                /\ UNCHANGED <<dirs, files>>
           ELSE LET w == write_file(m.dirs, files, log_file_name(log_dir, now),
                                    execution_log(config.obj, now, result))
                IN  /\ dirs' = m.dirs
                    /\ IF w.raised
                       THEN /\ Return(config.path, result, OrchestratorFailed(w.exc),
                                      Append(logger, except_line(w.exc)))
                            /\ UNCHANGED files
                       ELSE /\ Return(config.path, result, result,
                                      Append(logger, "Execution log saved"))
                            /\ files' = w.files
    /\ UNCHANGED <<now, runs>>

\* time passes between invocations; one invocation is short against the
\* one-second resolution of the clock
Tick ==
    /\ pc = "idle"
    /\ now < MaxClock
    /\ now' = now + 1
    /\ UNCHANGED <<dirs, files, pc, config, input_path, output_path, df,
                   start_time, result, logger, returned, runs>>

Next ==
    \/ \E cp \in ConfigPaths : run_pipeline(cp)
    \/ process
    \/ read_csv
    \/ clean_data
    \/ transform_data
    \/ validate_data
    \/ write_csv
    \/ process_return
    \/ log_execution
    \/ Tick

Spec == Init /\ [][Next]_vars

\* ================================================================= claims
\* a call of process is in progress or was the last call made
InProcessCall == pc # "idle" /\ "Starting data pipeline" \in Range(logger)

\* process has returned to its caller, which has made no further call
ProcessReturned == pc \in {"log_execution", "direct"} /\ InProcessCall

\* the table of the input file after load, deduplicate, drop-incomplete, normalize
Normalized(d, t) ==
    strip_object_columns(lower_columns(set_column(
        DataFrame(d.columns, d.dtypes, dropna(drop_duplicates(d.rows))),
        TimestampColumn, isoformat(t))))

\* the failure of the first stage that fails on the present files, None when none does
StageFailure ==
    LET r == pd_read_csv(files, input_path)
    IN  IF r.raised THEN r.exc
        ELSE LET n == Normalized(r.df, now)
             IN  IF n.raised THEN n.exc
                 ELSE IF Len(n.df.rows) = 0 \/ \E i \in DOMAIN n.df.rows : has_null(n.df.rows[i])
                 THEN Err("Data validation failed", <<>>)
                 ELSE LET m == os_makedirs(dirs, files, dirname(output_path))
                      IN  IF m.raised THEN m.exc ELSE None

\* C1: process never hands an exception to its caller. Whenever process has
\* returned, what the caller holds is a result tagged success or failed; it is
\* failed exactly when a stage (load, transform, validate, persist) fails, and
\* then it carries that stage's message.
C1_ProcessReturnsTaggedResult ==
    ProcessReturned =>
        /\ result.status \in {"success", "failed"}
        /\ (result.status = "success") <=> (StageFailure = None)
        /\ result.status = "failed" => result.error = StageFailure

\* C1 witness: process has returned failed for an exception raised inside the
\* normalize stage
C1_Witness ==
    /\ ProcessReturned
    /\ result.status = "failed"
    /\ result.error.msg = "'DataFrame' object has no attribute 'str'"

StageOrder ==
    <<"Successfully read", "Removed duplicates", "Removed rows with missing values",
      "Data transformation complete", "Data validation passed", "CSV write successful">>

StagesRun == SelectSeq(logger, LAMBDA l : l \in Range(StageOrder))

\* C2: within one call of process the stages that have run are a prefix of
\* load, deduplicate, drop-incomplete, normalize, validate, persist, each once;
\* after a failure nothing more runs; persist is reached only after validation
\* passed; and every stage works on the table the previous stage left.
C2_StagesInFixedOrder ==
    InProcessCall =>
        /\ StagesRun = SubSeq(StageOrder, 1, Len(StagesRun))
        /\ pc = "read_csv" => Len(StagesRun) = 0
        /\ pc = "clean_data" => Len(StagesRun) = 1 /\ df = pd_read_csv(files, input_path).df
        /\ pc = "transform_data" =>
              /\ Len(StagesRun) = 3
              /\ df.rows = dropna(drop_duplicates(files[input_path].rows))
        /\ pc = "validate_data" =>
              /\ Len(StagesRun) = 4
              /\ df = Normalized(pd_read_csv(files, input_path).df, now).df
        /\ pc = "write_csv" =>
              /\ Len(StagesRun) = 5
              /\ df = Normalized(pd_read_csv(files, input_path).df, now).df
        /\ pc = "process_return" => Len(StagesRun) = 6
        /\ "Pipeline failed" \in Range(logger) =>
              /\ ProcessReturned
              /\ result.status = "failed"
              /\ Len(StagesRun) < 6
        /\ "CSV write successful" \in Range(logger) =>
              "Data validation passed" \in Range(logger)

\* C2 witness: a call of process that ran all six stages and returned
C2_Witness == ProcessReturned /\ Len(StagesRun) = 6 /\ result.status = "success"

ExecutionLogs(fs) == {p \in DOMAIN fs : fs[p].kind = "log"}

\* C3: every invocation of run_pipeline whose configuration is valid, and whose
\* log directory can be made, leaves one more execution log file than there
\* was (none overwritten), and the file named with the invocation's timestamp
\* holds the result the invocation returned.
C3_OneLogFilePerInvocation ==
    [][pc = "log_execution" =>
         LET log_dir == dict_get(config.obj, "log_path", DefaultLogPath)
         IN  ~os_makedirs(dirs, files, log_dir).raised =>
                /\ Cardinality(ExecutionLogs(files')) = Cardinality(ExecutionLogs(files)) + 1
                /\ files'[log_file_name(log_dir, now)].result = returned'.ret]_vars

\* C4: whenever the configuration was read and process was called, run_pipeline
\* returns exactly what process returned, also when making the log directory
\* or writing the log file fails.
C4_ReturnsInnerResultUnchanged ==
    (returned # None /\ returned.inner # None) => returned.ret = returned.inner

\* the configuration at cp cannot be used: missing, not JSON, or lacking a key
Unusable(fs, cp) ==
    \/ cp \notin DOMAIN fs
    \/ fs[cp].kind # "json"
    \/ ~({"input_path", "output_path"} \subseteq DOMAIN fs[cp].obj)

\* the message of the error an unusable configuration gives
ConfigError(fs, cp) ==
    IF cp \notin DOMAIN fs THEN Err("[Errno 2] No such file or directory", cp)
    ELSE IF fs[cp].kind # "json" THEN Err("Expecting value", <<>>)
    ELSE IF "input_path" \notin DOMAIN fs[cp].obj THEN Err("'input_path'", <<>>)
    ELSE Err("'output_path'", <<>>)

\* C5: an invocation of run_pipeline on a configuration that cannot be used
\* returns at once a failed result with the error's message, without calling
\* process and without touching the file system (no output, no execution log).
C5_UnusableConfigFailsWithoutRun ==
    [][runs' = runs + 1 =>
         LET cp == IF pc' = "idle" THEN returned'.config_path ELSE config'.path
         IN  Unusable(files, cp) =>
                /\ pc' = "idle"
                /\ returned'.inner = None
                /\ returned'.ret.status = "failed"
                /\ returned'.ret.error = ConfigError(files, cp)
                /\ files' = files
                /\ dirs' = dirs]_vars

\* C5 witness: run_pipeline has returned failed for a configuration without
\* input_path, and no execution log exists
C5_Witness ==
    /\ pc = "idle"
    /\ returned # None
    /\ returned.config_path = Cfg("no_input.json")
    /\ returned.ret = OrchestratorFailed(Err("'input_path'", <<>>))
    /\ ExecutionLogs(files) = {}

\* C6: with an input location that does not exist, read_csv raises the
\* file-not-found error naming that location and leaves the table unset;
\* process returns failed with that error; and neither creates or changes any
\* file or directory.
C6_MissingInputFailsCleanly ==
    [][(/\ pc \in {"read_csv", "direct"}
        /\ input_path \notin DOMAIN files
        /\ \/ pc = "read_csv"
           \/ pc' = "direct" /\ logger' = <<"Reading CSV", "Input file not found">>) =>
          /\ files' = files
          /\ dirs' = dirs
          /\ df' = None
          /\ result'.error = Err("[Errno 2] No such file or directory", input_path)
          /\ result'.status = IF pc = "direct" THEN "raised" ELSE "failed"
          /\ pc' = AfterProcess]_vars

\* C6 witness: process has returned failed on a missing input, and no output
\* file or directory exists
C6_Witness ==
    /\ ProcessReturned
    /\ input_path = MissingInput
    /\ result.status = "failed"
    /\ result.error.path = MissingInput
    /\ output_path \notin DOMAIN files
    /\ dirname(output_path) \notin dirs

Complete(row) == \A c \in DOMAIN row : row[c].t # "nan"

\* the positions of the rows that hold no null and repeat no earlier row
Kept(rows) ==
    {i \in DOMAIN rows : Complete(rows[i]) /\ \A j \in 1..(i - 1) : rows[j] # rows[i]}

\* the members of a set of numbers, in ascending order
Ascending(S) ==
    CHOOSE s \in [1..Cardinality(S) -> S] :
        \A a, b \in 1..Cardinality(S) : a < b => s[a] < s[b]

\* t is s without its leading and trailing whitespace
IsTrimOf(t, s) ==
    \E a \in 0..Len(s) : \E b \in a..Len(s) :
        /\ t = SubSeq(s, a + 1, b)
        /\ \A k \in 1..a : s[k] \in Whitespace
        /\ \A k \in (b + 1)..Len(s) : s[k] \in Whitespace
        /\ t # <<>> => (t[1] \notin Whitespace /\ t[Len(t)] \notin Whitespace)

\* the written cell for an input cell: a text trimmed, anything else as it was
IsNormalizedCell(out, in) ==
    IF in.t = "str" THEN out.t = "str" /\ IsTrimOf(out.v, in.v) ELSE out = in

ProcessSucceeded == ProcessReturned /\ result.status = "success"

EmptyOrNull(d) == Len(d.rows) = 0 \/ \E i \in DOMAIN d.rows : ~Complete(d.rows[i])

\* C8: validate_data on a loaded table answers false exactly when the table is
\* empty or holds a null cell; called by process it lets process go on to
\* persist exactly when it answers true, and otherwise process returns failed
\* with nothing written.
C8_ValidationFailsIffEmptyOrNull ==
    [][(/\ pc \in {"validate_data", "direct"}
        /\ df # None
        /\ \/ pc = "validate_data"
           \/ pc' = "direct" /\ logger' # <<>> /\ logger'[1] = "Validating data") =>
          IF pc = "direct"
          THEN result' = Returned(IF EmptyOrNull(df) THEN "False" ELSE "True")
          ELSE IF EmptyOrNull(df)
          THEN /\ pc' = AfterProcess
               /\ result'.status = "failed"
               /\ result'.error = Err("Data validation failed", <<>>)
               /\ files' = files
               /\ dirs' = dirs
          ELSE pc' = "write_csv"]_vars

\* C8 witness: process has returned failed on an input whose every row is an
\* incomplete row, none a duplicate, and there is no output file
C8_Witness ==
    /\ ProcessReturned
    /\ result.status = "failed"
    /\ result.error.msg = "Data validation failed"
    /\ Len(files[input_path].rows) = MaxRows
    /\ \A i \in DOMAIN files[input_path].rows :
          /\ ~Complete(files[input_path].rows[i])
          /\ \A j \in 1..(i - 1) : files[input_path].rows[j] # files[input_path].rows[i]
    /\ output_path \notin DOMAIN files

\* the output location can be written: nothing on the way to it is a regular
\* file, and it is not itself a directory
Writable(out) ==
    /\ out \notin dirs
    /\ \A q \in Prefixes(dirname(out)) : q \notin DOMAIN files

\* C9: a process call whose table passed validation, on a writable output
\* location, ends succeeded with the output file at output_path: whether the
\* parent directories were missing or the location is a bare file name.
C9_PersistWritesAnyWritableLocation ==
    (/\ ProcessReturned
     /\ "Data validation passed" \in Range(logger)
     /\ Writable(output_path)) =>
        /\ result.status = "success"
        /\ output_path \in DOMAIN files

DifferOnlyInWhitespace(h, r1, r2) ==
    /\ r1 # r2
    /\ \A c \in DOMAIN r1 :
          \/ r1[c] = r2[c]
          \/ h[c] = TimestampColumn
          \/ /\ r1[c].t = "str"
             /\ r2[c].t = "str"
             /\ \E t \in {SubSeq(r1[c].v, a, b) : a \in 1..(Len(r1[c].v) + 1), b \in 0..Len(r1[c].v)} :
                   IsTrimOf(t, r1[c].v) /\ IsTrimOf(t, r2[c].v)

====
